---- MODULE Spec2Model ----
(***************************************************************************)
(* Model of the integration engine of mint-SZ: integrate / uninstall       *)
(* (src/src/integrate.rs), the installation layout resolver                *)
(* (src/mint_lib/src/lib.rs) and ModSpecification::satisfies_dependency    *)
(* (src/mint_lib/src/mod_info.rs).                                         *)
(*                                                                         *)
(* A path is a sequence of components.  The filesystem below the game's    *)
(* parent directory is a function from the paths that exist to a node:     *)
(* DirNode for a directory, a string for a file's content.                 *)
(* Artifacts are directories outside the installation; they are read,      *)
(* never written.                                                          *)
(***************************************************************************)
EXTENDS Naturals, Sequences, FiniteSets, TLC

VARIABLES fs, op, argPath, mods, ids, result, errPath, failedAt, log,
          attempted, pre, prevOp, prevResult, prevMods, work,
          specA, specB, sat, satRev, satSelf, checked

vars == <<fs, op, argPath, mods, ids, result, errPath, failedAt, log,
          attempted, pre, prevOp, prevResult, prevMods, work,
          specA, specB, sat, satRev, satSelf, checked>>

engineVars == <<fs, op, argPath, mods, ids, result, errPath, failedAt, log,
                attempted, pre, prevOp, prevResult, prevMods, work>>

depVars == <<specA, specB, sat, satRev, satSelf, checked>>

(* ------------------------------ bounds --------------------------------- *)

\* work done in one run: every call counts one, and every (ModInfo,
\* artifact) pair handed to integrate counts one more
MaxWork == 4

\* longest url of a ModSpecification
MaxUrlLen == 3

(* ------------------------------ paths ---------------------------------- *)

DirNode == "dir"

NoPath == <<"-">>

\* Path::parent(): None for a path without components ("" or "/")
HasParent(p) == Len(p) > 0

Parent(p) == SubSeq(p, 1, Len(p) - 1)

IsPrefix(p, q) == Len(p) <= Len(q) /\ SubSeq(q, 1, Len(p)) = p

Prefixes(p) == { SubSeq(p, 1, n) : n \in 1..Len(p) }

\* DBSZInstallation::from_game_path: parent().unwrap() panics on None
from_game_path(game) ==
    IF HasParent(game) THEN [kind |-> "Ok", root |-> Parent(game)]
    ELSE [kind |-> "panic", root |-> <<>>]

paks_path(root) == root \o <<"Content", "Paks">>

mods_path(root) == root \o <<"Mods">>

PaksModsPath(root) == paks_path(root) \o <<"~mods">>

GamePath == <<"game", "SparkingZERO">>

GamePaths == { <<>>, GamePath }

Root == Parent(GamePath)

(* ----------------------------- artifacts ------------------------------- *)

ModTypes == {"ModPlugin", "Pak"}

ModNames == {"Foo", "Bar"}

ArtifactIds == {"A", "B", "C", "missing"}

\* the artifact directories the collaborators hand over; "missing" is a
\* path that does not exist
ArtifactTree(id) ==
    CASE id = "A" -> (<<"a">> :> "v1") @@ (<<"d">> :> DirNode) @@ (<<"d", "a">> :> "v1")
      [] id = "B" -> (<<"a">> :> "v2")
      [] id = "C" -> (<<"a">> :> "v2") @@ (<<"d">> :> "v1")
      [] OTHER    -> <<>>

ArtifactExists(id) == id # "missing"

ArtifactFiles(id) == { q \in DOMAIN ArtifactTree(id) : ArtifactTree(id)[q] # DirNode }

ModPairs == [name : ModNames, mod_type : ModTypes, artifact : ArtifactIds]

ModLists(n) == UNION { [1..k -> ModPairs] : k \in 0..n }

\* read_dir yields the entries of a directory in an unspecified order: the
\* order of NameOrder, or its reverse when rev holds
NameOrder == <<"Bar", "Foo", "a", "d">>

Rank(n) == CHOOSE i \in 1..Len(NameOrder) : NameOrder[i] = n

Before(x, y, rev) == IF rev THEN Rank(y) < Rank(x) ELSE Rank(x) < Rank(y)

\* the entries of a directory in the order read_dir yields them
SortedNames(S, rev) ==
    CHOOSE s \in [1..Cardinality(S) -> S] :
        \A i, j \in 1..Cardinality(S) : i < j => Before(s[i], s[j], rev)

Entries(id, sub, rev) ==
    SortedNames({ q[Len(q)] : q \in { r \in DOMAIN ArtifactTree(id) : Parent(r) = sub } }, rev)

\* fs::read_dir(src) succeeds when src exists and is a directory
read_dir_ok(id, sub) ==
    /\ ArtifactExists(id)
    /\ (sub = <<>> \/ (sub \in DOMAIN ArtifactTree(id) /\ ArtifactTree(id)[sub] = DirNode))

(* ------------------------- filesystem primitives ----------------------- *)

IsDir(f, p) == p \in DOMAIN f /\ f[p] = DirNode

IsFile(f, p) == p \in DOMAIN f /\ f[p] # DirNode

Subtree(f, p) == { q \in DOMAIN f : IsPrefix(p, q) }

Restrict(f, S) == [q \in S |-> f[q]]

\* fs::create_dir_all: creates the directory and every missing ancestor;
\* fails when a component of the path is a regular file
create_dir_all(f, p) ==
    IF \E q \in Prefixes(p) : IsFile(f, q)
    THEN [fs |-> f, ok |-> FALSE]
    ELSE [fs |-> [q \in DOMAIN f \cup Prefixes(p) |->
                     IF q \in DOMAIN f THEN f[q] ELSE DirNode],
          ok |-> TRUE]

\* fs_copy as if the destination were opened with create_new
fs_copy_new(f, dst, content) ==
    IF dst \in DOMAIN f
    THEN [fs |-> f, ok |-> FALSE]
    ELSE [fs |-> [q \in DOMAIN f \cup {dst} |-> IF q = dst THEN content ELSE f[q]],
          ok |-> TRUE]

\* fs::copy: creates or truncates the destination file; fails when the
\* destination is a directory
fs_copy(f, dst, content) ==
    IF IsDir(f, dst)
    THEN [fs |-> f, ok |-> FALSE]
    ELSE [fs |-> [q \in DOMAIN f \cup {dst} |-> IF q = dst THEN content ELSE f[q]],
          ok |-> TRUE]

(* ----------------------------- copy_dir_all ---------------------------- *)

RECURSIVE copy_dir_all(_, _, _, _, _, _)
RECURSIVE CopyEntries(_, _, _, _, _, _, _)

\* copy_dir_all that empties the destination before it copies
copy_dir_all_clean(id, sub, dst, f, lg, rev) ==
    LET c == create_dir_all(Restrict(f, DOMAIN f \ Subtree(f, dst)), dst)
    IN IF ~c.ok THEN [fs |-> f, ok |-> FALSE, log |-> lg]
       ELSE IF ~read_dir_ok(id, sub) THEN [fs |-> c.fs, ok |-> FALSE, log |-> lg]
       ELSE CopyEntries(id, sub, dst, c.fs, lg, Entries(id, sub, rev), rev)

\* copy_dir_all that reads the source before it creates the destination
copy_dir_all_readfirst(id, sub, dst, f, lg, rev) ==
    LET c == create_dir_all(f, dst)
    IN IF ~read_dir_ok(id, sub) THEN [fs |-> f, ok |-> FALSE, log |-> lg]
       ELSE IF ~c.ok THEN [fs |-> f, ok |-> FALSE, log |-> lg]
       ELSE CopyEntries(id, sub, dst, c.fs, lg, Entries(id, sub, rev), rev)

\* the for loop of copy_dir_all over the entries es still to be visited
CopyEntries(id, sub, dst, f, lg, es, rev) ==
    IF es = <<>> THEN [fs |-> f, ok |-> TRUE, log |-> lg]
    ELSE LET name == Head(es)
             from == sub \o <<name>>
             to   == dst \o <<name>>
         IN IF ArtifactTree(id)[from] = DirNode
            THEN LET r == copy_dir_all(id, from, to, f, lg, rev)
                 IN IF r.ok
                    THEN CopyEntries(id, sub, dst, r.fs, r.log, Tail(es), rev)
                    ELSE r
            ELSE LET c == fs_copy(f, to, ArtifactTree(id)[from])
                 IN IF c.ok
                    THEN CopyEntries(id, sub, dst, c.fs,
                                     Append(lg, [dst |-> to, content |-> ArtifactTree(id)[from]]),
                                     Tail(es), rev)
                    ELSE [fs |-> f, ok |-> FALSE, log |-> lg]

copy_dir_all(id, sub, dst, f, lg, rev) ==
    LET c == create_dir_all(f, dst)
    IN IF ~c.ok THEN [fs |-> f, ok |-> FALSE, log |-> lg]
       ELSE IF ~read_dir_ok(id, sub) THEN [fs |-> c.fs, ok |-> FALSE, log |-> lg]
       ELSE CopyEntries(id, sub, dst, c.fs, lg, Entries(id, sub, rev), rev)

(* ------------------------------- integrate ----------------------------- *)

\* DestPath with the Pak arm sending the mod to the plugin root
DestPathOneRoot(root, m) == mods_path(root) \o <<m.name>>

\* the destination the match on mod_info.mod_type selects
DestPath(root, m) ==
    IF m.mod_type = "ModPlugin"
    THEN mods_path(root) \o <<m.name>>
    ELSE paks_path(root) \o <<"~mods">> \o <<m.name>>

RECURSIVE IntegrateLoopContinuing(_, _, _, _, _, _)

\* IntegrateLoop that goes on to the remaining mods after a failed copy
IntegrateLoopContinuing(root, ms, i, f, lg, rev) ==
    IF i > Len(ms)
    THEN [fs |-> f, kind |-> "Ok", errPath |-> NoPath, failedAt |-> 0, log |-> lg]
    ELSE LET r == copy_dir_all(ms[i].artifact, <<>>, DestPath(root, ms[i]), f, lg, rev)
             rest == IntegrateLoopContinuing(root, ms, i + 1, r.fs, r.log, rev)
         IN IF r.ok THEN rest
            ELSE [fs |-> rest.fs, kind |-> "IoError", errPath |-> NoPath,
                  failedAt |-> i, log |-> rest.log]

RECURSIVE IntegrateLoop(_, _, _, _, _, _)

\* the for loop of integrate from the mod at index i on
IntegrateLoop(root, ms, i, f, lg, rev) ==
    IF i > Len(ms)
    THEN [fs |-> f, kind |-> "Ok", errPath |-> NoPath, failedAt |-> 0, log |-> lg]
    ELSE LET r == copy_dir_all(ms[i].artifact, <<>>, DestPath(root, ms[i]), f, lg, rev)
         IN IF r.ok
            THEN IntegrateLoop(root, ms, i + 1, r.fs, r.log, rev)
            ELSE [fs |-> r.fs, kind |-> "IoError", errPath |-> NoPath,
                  failedAt |-> i, log |-> r.log]

integrate(path_project, ms, f, rev) ==
    LET installation == from_game_path(path_project)
    IN CASE installation.kind = "Ok" ->
                IntegrateLoop(installation.root, ms, 1, f, <<>>, rev)
         [] installation.kind = "Err" ->
                [fs |-> f, kind |-> "DrgInstallationNotFound", errPath |-> path_project,
                 failedAt |-> 0, log |-> <<>>]
         [] OTHER ->
                [fs |-> f, kind |-> "panic", errPath |-> NoPath, failedAt |-> 0,
                 log |-> <<>>]

(* ------------------------------- uninstall ----------------------------- *)

CommonLen(p, q) ==
    CHOOSE n \in 0..Len(p) :
        /\ n <= Len(q)
        /\ SubSeq(p, 1, n) = SubSeq(q, 1, n)
        /\ (n < Len(p) /\ n < Len(q) => p[n + 1] # q[n + 1])

\* remove_dir_all that empties the directory and leaves it in place
remove_dir_all_contents(f, p, blocker, rev) ==
    IF p \notin DOMAIN f THEN [fs |-> f, err |-> "NotFound"]
    ELSE IF ~(blocker \in Subtree(f, p))
    THEN [fs |-> Restrict(f, (DOMAIN f \ Subtree(f, p)) \cup {p}), err |-> "None"]
    ELSE [fs |-> f, err |-> "PermissionDenied"]

\* fs::remove_dir_all(p).  blocker is the entry the operating system
\* refuses to remove (NoPath: none).  The walk removes every entry it
\* visits before the blocker, and the blocker's own contents, and then
\* stops.
remove_dir_all(f, p, blocker, rev) ==
    IF p \notin DOMAIN f THEN [fs |-> f, err |-> "NotFound"]
    ELSE IF ~(blocker \in Subtree(f, p))
    THEN [fs |-> Restrict(f, DOMAIN f \ Subtree(f, p)), err |-> "None"]
    ELSE LET gone == { q \in Subtree(f, p) :
                         /\ ~IsPrefix(q, blocker)
                         /\ \/ IsPrefix(blocker, q)
                            \/ Before(q[CommonLen(q, blocker) + 1],
                                      blocker[CommonLen(q, blocker) + 1], rev) }
         IN [fs |-> Restrict(f, DOMAIN f \ gone), err |-> "PermissionDenied"]

\* RemoveStep without the arm that absorbs ErrorKind::NotFound
RemoveStepStrict(f, p, blocker, rev) ==
    LET r == remove_dir_all(f, p, blocker, rev)
    IN [fs |-> r.fs, ok |-> r.err = "None"]

\* match fs::remove_dir_all(..) { Ok | Err(NotFound) => Ok(()), Err(e) => Err(e) }
RemoveStep(f, p, blocker, rev) ==
    LET r == remove_dir_all(f, p, blocker, rev)
    IN [fs |-> r.fs, ok |-> r.err \in {"None", "NotFound"}]

\* uninstall that removes ~mods even after the removal of Mods failed
uninstall_continue(path_pak, modio_mods, f, blocker, rev) ==
    LET installation == from_game_path(path_pak)
        path_mods == mods_path(installation.root)
        path_mods_paks == paks_path(installation.root) \o <<"~mods">>
        r1 == remove_dir_all(f, path_mods, blocker, rev)
        r2 == remove_dir_all(r1.fs, path_mods_paks, NoPath, rev)
    IN IF installation.kind # "Ok"
       THEN [fs |-> f, kind |-> "panic", errPath |-> NoPath, attempted |-> <<>>]
       ELSE IF r1.err \in {"None", "NotFound"}
       THEN [fs |-> r2.fs, kind |-> "Ok", errPath |-> NoPath,
             attempted |-> <<path_mods, path_mods_paks>>]
       ELSE [fs |-> r2.fs, kind |-> "Whatever", errPath |-> path_mods,
             attempted |-> <<path_mods, path_mods_paks>>]

uninstall(path_pak, modio_mods, f, blocker, rev) ==
    LET installation == from_game_path(path_pak)
        path_mods == mods_path(installation.root)
        path_mods_paks == paks_path(installation.root) \o <<"~mods">>
        r1 == RemoveStep(f, path_mods, blocker, rev)
        r2 == RemoveStep(r1.fs, path_mods_paks, blocker, rev)
    IN CASE installation.kind = "panic" ->
                [fs |-> f, kind |-> "panic", errPath |-> NoPath, attempted |-> <<>>]
         [] installation.kind = "Err" ->
                [fs |-> f, kind |-> "Whatever", errPath |-> NoPath, attempted |-> <<>>]
         [] installation.kind = "Ok" /\ ~r1.ok ->
                [fs |-> r1.fs, kind |-> "Whatever", errPath |-> path_mods,
                 attempted |-> <<path_mods>>]
         [] installation.kind = "Ok" /\ r1.ok /\ ~r2.ok ->
                [fs |-> r2.fs, kind |-> "Whatever", errPath |-> path_mods_paks,
                 attempted |-> <<path_mods, path_mods_paks>>]
         [] OTHER ->
                [fs |-> r2.fs, kind |-> "Ok", errPath |-> NoPath,
                 attempted |-> <<path_mods, path_mods_paks>>]

(* --------------------------- satisfies_dependency ---------------------- *)

UrlChars == {"x", "y"}

Urls == UNION { [1..n -> UrlChars] : n \in 0..MaxUrlLen }

\* str::starts_with
starts_with(s, t) == Len(t) <= Len(s) /\ SubSeq(s, 1, Len(t)) = t

\* satisfies_dependency with the second disjunct dropped
satisfies_dependency_oneway(self, other) == starts_with(self, other)

satisfies_dependency(self, other) ==
    starts_with(self, other) \/ starts_with(other, self)

(* ------------------------------ the system ----------------------------- *)

ModioIds == { {}, {1} }

\* a game directory in which nothing has been installed yet
InitialFs == (Root :> DirNode)

Min(a, b) == IF a < b THEN a ELSE b

\* the arguments of an integrate call; with the path that has no parent
\* the list is cut to one pair
IntegrateInputs(n) ==
    { [path |-> GamePath, mods |-> ms] : ms \in ModLists(n) }
        \cup { [path |-> <<>>, mods |-> ms] : ms \in ModLists(Min(n, 1)) }

EngineIdle ==
    /\ op = "none"
    /\ argPath = NoPath
    /\ mods = <<>>
    /\ ids = {}
    /\ result = "none"
    /\ errPath = NoPath
    /\ failedAt = 0
    /\ log = <<>>
    /\ attempted = <<>>
    /\ prevOp = "none"
    /\ prevResult = "none"
    /\ prevMods = <<>>
    /\ work = 0

DepIdle ==
    /\ specA = <<>>
    /\ specB = <<>>
    /\ sat = FALSE
    /\ satRev = FALSE
    /\ satSelf = FALSE
    /\ checked = FALSE

Init ==
    /\ fs = InitialFs
    /\ pre = fs
    /\ EngineIdle
    /\ DepIdle

Shift ==
    /\ pre' = fs
    /\ prevOp' = op
    /\ prevResult' = result
    /\ prevMods' = mods

CallIntegrate ==
    /\ work < MaxWork
    /\ \E in \in IntegrateInputs(MaxWork - work - 1), rev \in BOOLEAN :
          \E r \in {integrate(in.path, in.mods, fs, rev)} :
             /\ fs' = r.fs
             /\ op' = "integrate"
             /\ argPath' = in.path
             /\ mods' = in.mods
             /\ ids' = {}
             /\ result' = r.kind
             /\ errPath' = r.errPath
             /\ failedAt' = r.failedAt
             /\ log' = r.log
             /\ attempted' = <<>>
             /\ work' = work + 1 + Len(in.mods)
    /\ Shift
    /\ UNCHANGED depVars

\* the entries the operating system may refuse to remove: none, one of
\* the two managed directories, or one of the mod directories in them
Blockers(f) ==
    {NoPath} \cup { q \in DOMAIN f :
                       \/ q \in {mods_path(Root), PaksModsPath(Root)}
                       \/ Parent(q) \in {mods_path(Root), PaksModsPath(Root)} }

Orders(blocker) == IF blocker = NoPath THEN {FALSE} ELSE BOOLEAN

CallUninstall ==
    /\ work < MaxWork
    /\ \E p \in GamePaths, idset \in ModioIds, blocker \in Blockers(fs) :
       \E rev \in Orders(blocker) :
          \E r \in {uninstall(p, idset, fs, blocker, rev)} :
             /\ fs' = r.fs
             /\ op' = "uninstall"
             /\ argPath' = p
             /\ mods' = <<>>
             /\ ids' = idset
             /\ result' = r.kind
             /\ errPath' = r.errPath
             /\ failedAt' = 0
             /\ log' = <<>>
             /\ attempted' = r.attempted
             /\ work' = work + 1
    /\ Shift
    /\ UNCHANGED depVars

Next == CallIntegrate \/ CallUninstall

Spec == Init /\ [][Next]_vars

InitDep ==
    /\ fs = InitialFs
    /\ pre = fs
    /\ EngineIdle
    /\ specA \in Urls
    /\ specB \in Urls
    /\ sat = FALSE
    /\ satRev = FALSE
    /\ satSelf = FALSE
    /\ checked = FALSE

CheckDependency ==
    /\ ~checked
    /\ sat' = satisfies_dependency(specA, specB)
    /\ satRev' = satisfies_dependency(specB, specA)
    /\ satSelf' = satisfies_dependency(specA, specA)
    /\ checked' = TRUE
    /\ UNCHANGED <<specA, specB>>
    /\ UNCHANGED engineVars

NextDep == CheckDependency

SpecDep == InitDep /\ [][NextDep]_vars

(* ======================== properties of the engine ===================== *)

\* the layout of section 6 of the specification, spelled out
ModsDir == <<"game", "Mods">>

PaksModsDir == <<"game", "Content", "Paks", "~mods">>

ClaimDest(m) ==
    IF m.mod_type = "ModPlugin" THEN ModsDir \o <<m.name>> ELSE PaksModsDir \o <<m.name>>

TreeAt(f, d) == [q \in { r \in DOMAIN f : IsPrefix(d, r) } |-> f[q]]

Installed(f) == { q \in DOMAIN f : IsPrefix(ModsDir, q) \/ IsPrefix(PaksModsDir, q) }

\* every entry of the artifact of ms[i] is at its destination, files with
\* the artifact's content
FullyCopied(ms, i) ==
    \A q \in DOMAIN ArtifactTree(ms[i].artifact) :
        LET p == ClaimDest(ms[i]) \o q
        IN /\ p \in DOMAIN fs
           /\ fs[p] = ArtifactTree(ms[i].artifact)[q]

\* the pairs of ms up to index n that share the destination of ms[i]
SameDest(ms, i, n) == { j \in 1..n : ClaimDest(ms[j]) = ClaimDest(ms[i]) }

Max(S) == CHOOSE x \in S : \A y \in S : y <= x

\* the last pair of ms with the destination of ms[i] whose artifact has q
LastSource(ms, i, q) ==
    Max({ j \in SameDest(ms, i, Len(ms)) : q \in DOMAIN ArtifactTree(ms[j].artifact) })

IntegrateOk == op = "integrate" /\ result = "Ok"

\* C1 as stated: after a successful integrate every file of every pair's
\* artifact is at <root>/Mods/<name>/p (ModPlugin) or
\* <root>/Content/Paks/~mods/<name>/p (Pak) with the content of its source.
C1_Original ==
    IntegrateOk => \A i \in DOMAIN mods : FullyCopied(mods, i)

\* C1 amended: after a successful integrate every entry of every pair's
\* artifact exists at the destination its mod type and name select, and a
\* file there holds the content of the same relative path in the last pair
\* of the list with that destination whose artifact contains the path (its
\* own source when no later pair shares the destination).
C1_Amended ==
    IntegrateOk =>
        \A i \in DOMAIN mods :
            \A q \in DOMAIN ArtifactTree(mods[i].artifact) :
                LET p == ClaimDest(mods[i]) \o q
                    last == LastSource(mods, i, q)
                IN /\ p \in DOMAIN fs
                   /\ fs[p] = ArtifactTree(mods[last].artifact)[q]
                   /\ (SameDest(mods, i, Len(mods)) = {i} => FullyCopied(mods, i))

C1_Witness ==
    /\ IntegrateOk
    /\ Len(mods) = 2
    /\ mods[1].mod_type = "ModPlugin" /\ mods[1].artifact = "A"
    /\ mods[2].mod_type = "Pak" /\ mods[2].artifact = "B"
    /\ mods[1].name # mods[2].name

MissingAt(ms) == { i \in DOMAIN ms : ms[i].artifact = "missing" }

\* a list with an artifact that does not exist fails, at the latest there
FailsAtMissing ==
    (op = "integrate" /\ HasParent(argPath) /\ MissingAt(mods) # {}) =>
        /\ result = "IoError"
        /\ failedAt \in 1..Len(mods)
        /\ \A i \in MissingAt(mods) : failedAt <= i

\* the indices of the mods of ms whose destination holds the path p
Owners(ms, p) == { i \in DOMAIN ms : IsPrefix(ClaimDest(ms[i]), p) }

\* the files were copied mod by mod in the order of the list: a file copied
\* later never belongs to an earlier destination than one copied before it
InInputOrder ==
    op = "integrate" =>
        \A n, m \in DOMAIN log :
            n < m => \E i \in Owners(mods, log[n].dst), j \in Owners(mods, log[m].dst) : i <= j

\* C2 as stated: mods are processed in input order, and when the copy of the
\* mod at index i fails integrate returns an I/O error, every mod before i
\* is fully copied, and nothing under the destination of a mod after i has
\* been created or modified.
C2_Original ==
    /\ FailsAtMissing
    /\ InInputOrder
    /\ (op = "integrate" /\ failedAt > 0) =>
        /\ result = "IoError"
        /\ \A k \in 1..(failedAt - 1) : FullyCopied(mods, k)
        /\ \A j \in (failedAt + 1)..Len(mods) :
              TreeAt(fs, ClaimDest(mods[j])) = TreeAt(pre, ClaimDest(mods[j]))

\* C2 amended: mods are processed in input order, and when the copy of the
\* mod at index i fails integrate returns an I/O error; every mod before i
\* whose destination no other mod up to i shares is fully copied; and
\* nothing under the destination of a mod after i has been created or
\* modified unless a mod up to i has that destination.
C2_Amended ==
    /\ FailsAtMissing
    /\ InInputOrder
    /\ (op = "integrate" /\ failedAt > 0) =>
        /\ result = "IoError"
        /\ \A k \in 1..(failedAt - 1) :
              SameDest(mods, k, failedAt) = {k} => FullyCopied(mods, k)
        /\ \A j \in (failedAt + 1)..Len(mods) :
              SameDest(mods, j, failedAt) = {} =>
                  TreeAt(fs, ClaimDest(mods[j])) = TreeAt(pre, ClaimDest(mods[j]))

C2_Witness ==
    /\ op = "integrate"
    /\ failedAt = 2
    /\ Len(mods) = 3
    /\ mods[1].artifact = "A"
    /\ mods[2].artifact = "missing"
    /\ mods[3].artifact = "A"
    /\ Cardinality({ ClaimDest(mods[i]) : i \in 1..3 }) = 3

\* C3: for a path without a parent integrate returns DrgInstallationNotFound
\* carrying the path and changes nothing, and the layout resolver returns an
\* error value instead of aborting.
C3_Claim ==
    /\ (op = "integrate" /\ ~HasParent(argPath)) =>
          /\ result = "DrgInstallationNotFound"
          /\ errPath = argPath
          /\ fs = pre
    /\ (op \in {"integrate", "uninstall"} /\ ~HasParent(argPath)) => result # "panic"

\* C4: uninstall treats a missing target as success.  With neither managed
\* directory present it returns Ok and changes nothing; an error it reports
\* never names a target that was missing; and an uninstall that follows a
\* successful uninstall returns Ok and leaves the filesystem as it found it.
C4_MissingIsSuccess ==
    (op = "uninstall" /\ HasParent(argPath)) =>
        /\ (ModsDir \notin DOMAIN pre /\ PaksModsDir \notin DOMAIN pre) =>
              (result = "Ok" /\ fs = pre)
        /\ result # "Ok" => errPath \in DOMAIN pre
        /\ (prevOp = "uninstall" /\ prevResult = "Ok") => (result = "Ok" /\ fs = pre)

C4_Witness ==
    /\ op = "uninstall" /\ result = "Ok"
    /\ prevOp = "uninstall" /\ prevResult = "Ok"
    /\ ModsDir \notin DOMAIN pre
    /\ PaksModsDir \notin DOMAIN pre
    /\ fs = pre

\* C5: a successful uninstall leaves neither <root>/Mods nor
\* <root>/Content/Paks/~mods, nor anything below them, whatever was
\* installed before and whatever ids it was given.
C5_WipesAll ==
    (op = "uninstall" /\ result = "Ok") => Installed(fs) = {}

C5_Witness ==
    /\ op = "uninstall" /\ result = "Ok"
    /\ ids # {}
    /\ prevOp = "integrate" /\ prevResult = "Ok"
    /\ \E n \in ModNames : ModsDir \o <<n, "d", "a">> \in DOMAIN pre
    /\ \E n \in ModNames : PaksModsDir \o <<n, "a">> \in DOMAIN pre
    /\ Installed(fs) = {}

Repeated ==
    /\ op = "integrate" /\ HasParent(argPath)
    /\ prevOp = "integrate" /\ prevResult = "Ok"
    /\ mods = prevMods

\* C6: integrate run again with the same path and the same list after a
\* successful run succeeds, leaves the installation as the first run left
\* it, and every destination file equals the source it was copied from last.
C6_Idempotent ==
    Repeated =>
        /\ result = "Ok"
        /\ fs = pre
        /\ \A i \in DOMAIN mods :
              \A q \in ArtifactFiles(mods[i].artifact) :
                  /\ ClaimDest(mods[i]) \o q \in DOMAIN fs
                  /\ fs[ClaimDest(mods[i]) \o q]
                        = ArtifactTree(mods[LastSource(mods, i, q)].artifact)[q]

C6_Witness ==
    /\ Repeated
    /\ result = "Ok"
    /\ Len(mods) = 1
    /\ mods[1].artifact = "A"
    /\ fs[ClaimDest(mods[1]) \o <<"d", "a">>] = "v1"

\* the files an integrate call with list ms may write
Targets(ms) ==
    UNION { { ClaimDest(ms[i]) \o q : q \in ArtifactFiles(ms[i].artifact) } :
                i \in DOMAIN ms }

\* mod i of this call replaces, alone at its destination, a different
\* artifact that the previous call installed there
Reinstalls(i) ==
    /\ op = "integrate" /\ prevOp = "integrate" /\ prevResult = "Ok"
    /\ SameDest(mods, i, Len(mods)) = {i}
    /\ \E j \in DOMAIN prevMods :
          /\ ClaimDest(prevMods[j]) = ClaimDest(mods[i])
          /\ prevMods[j].artifact # mods[i].artifact

\* C7: integrate never deletes: whatever existed before a call exists after
\* it, and a file whose path is not the destination of a file of the call's
\* artifacts is unchanged (stale files of an earlier artifact persist); when
\* a mod is installed again from a different artifact B and the call
\* succeeds, the files whose relative path occurs in B hold B's content.
C7_StaleFilesPersist ==
    (op = "integrate" /\ HasParent(argPath)) =>
        /\ \A p \in DOMAIN pre :
              /\ p \in DOMAIN fs
              /\ p \notin Targets(mods) => fs[p] = pre[p]
        /\ \A i \in DOMAIN mods :
              (Reinstalls(i) /\ result = "Ok") => FullyCopied(mods, i)

C7_Witness ==
    /\ Len(mods) = 1
    /\ Reinstalls(1)
    /\ result = "Ok"
    /\ prevMods[1].artifact = "A"
    /\ mods[1].artifact = "B"
    /\ fs[ClaimDest(mods[1]) \o <<"a">>] = "v2"
    /\ fs[ClaimDest(mods[1]) \o <<"d", "a">>] = "v1"

\* s is t cut after some number of characters
PrefixOf(s, t) == \E n \in 0..Len(t) : s = SubSeq(t, 1, n)

\* C8: satisfies_dependency is true exactly when one url is a prefix of the
\* other; it is reflexive and symmetric.
C8_ReflexiveSymmetric ==
    checked =>
        /\ sat = (PrefixOf(specA, specB) \/ PrefixOf(specB, specA))
        /\ satSelf
        /\ sat = satRev

C8_Witness ==
    /\ checked
    /\ sat /\ satRev
    /\ Len(specA) < Len(specB)
    /\ Len(specA) > 0

\* C9: when the removal of <root>/Mods fails with an error other than
\* not-found, uninstall returns an error naming that path, never attempts
\* the removal of ~mods and leaves ~mods as it was; when the removal of
\* ~mods fails so, the error names ~mods.  A managed directory that is
\* still there after the call is one whose removal failed.
C9_AbortsNamingPath ==
    (op = "uninstall" /\ HasParent(argPath)) =>
        /\ ModsDir \in DOMAIN fs =>
              /\ result = "Whatever"
              /\ errPath = ModsDir
              /\ attempted = <<ModsDir>>
              /\ TreeAt(fs, PaksModsDir) = TreeAt(pre, PaksModsDir)
        /\ (ModsDir \notin DOMAIN fs /\ PaksModsDir \in DOMAIN fs) =>
              /\ result = "Whatever"
              /\ errPath = PaksModsDir
        /\ result = "Whatever" => errPath \in DOMAIN fs

C9_Witness ==
    /\ op = "uninstall" /\ result = "Whatever"
    /\ errPath = ModsDir
    /\ attempted = <<ModsDir>>
    /\ \E n \in ModNames : PaksModsDir \o <<n, "a">> \in DOMAIN fs

\* C10: a failed integrate keeps what it did.  When the artifact of the
\* failing mod does not exist the call returns an I/O error and the mod's
\* destination directory exists with all its ancestors, empty if it was not
\* there before the call and no earlier mod of the call was copied into it;
\* and every file copied before the failure is in the destination with the
\* content copied last.
C10_NoRollback ==
    (op = "integrate" /\ failedAt > 0) =>
        /\ result = "IoError"
        /\ mods[failedAt].artifact = "missing" =>
              LET d == ClaimDest(mods[failedAt])
              IN /\ \A q \in Prefixes(d) : IsDir(fs, q)
                 /\ (d \notin DOMAIN pre /\ SameDest(mods, failedAt, failedAt) = {failedAt})
                       => DOMAIN TreeAt(fs, d) = {d}
        /\ \A n \in DOMAIN log :
              /\ log[n].dst \in DOMAIN fs
              /\ (\A m \in (n + 1)..Len(log) : log[m].dst # log[n].dst) =>
                    fs[log[n].dst] = log[n].content

C10_Witness ==
    /\ op = "integrate" /\ result = "IoError"
    /\ failedAt = 1
    /\ mods[1].artifact = "missing"
    /\ mods[1].mod_type = "Pak"
    /\ PaksModsDir \notin DOMAIN pre
    /\ DOMAIN TreeAt(fs, ClaimDest(mods[1])) = {ClaimDest(mods[1])}

====
